---- MODULE Spec2Model ----
(***************************************************************************)
(* Discovery engine of paystub-service (backend/app): the per-bucket poll  *)
(* state machine of services/discovery/buckets.py, the dispatch scheduler  *)
(* of scheduler/discovery_bucket_job.py, the baseline / retention jobs and *)
(* the notification stamp of scheduler/push_job.py.                        *)
(*                                                                         *)
(* One bucket (date, anchor) is modelled.  Local is the worker that the    *)
(* scheduler of this process dispatches (_run_bucket_then_reenqueue); its  *)
(* _in_flight set admits one worker per bucket.  Peer is a poll of the     *)
(* same bucket by another process of the deployment (_poll_one_bucket):    *)
(* that process's in-memory scheduler is not part of the state, so its     *)
(* poll may start at any time.  The database is shared.                    *)
(*                                                                         *)
(* Time is a counter in units of five minutes.  Every datetime.now() whose *)
(* value is written to the database is strictly later than every earlier   *)
(* one (clock reads are never equal).  The statements a poll runs while it *)
(* holds the advisory lock are one step, taken at its commit; the read of  *)
(* the bucket row, which the code issues before the lock, is its own step. *)
(***************************************************************************)
EXTENDS Integers, FiniteSets, Sequences, TLC

\* ---------------------------------------------------------------- bounds
\* clock bound of the sequential specification
MaxTime == 4
\* clock bound of the specification with the jobs
MaxShortTime == 2
\* clock bound of the specification with two processes
MaxRaceTime == 3
\* clock bound of the specification of the scheduler over several buckets
MaxPoolTime == 2
\* longest poll, in clock units, of the steady-state specification
MaxLatency == 1
\* last day window_start_date() reaches in the retention specification
MaxDay == 2
\* closed availability_state rows of one (venue, window_date) (AggSpec)
MaxStateRows == 3
\* widest caller-supplied recency window of the read shapes, in units
MaxRecency == 2
\* clock bound of the fan-out specification
MaxFanTime == 4
\* latest opened_at of the specification of the DropEvent insert
MaxInsertTime == 2
\* DropEvent rows of the fan-out specification
MaxFanEvents == 3

\* ------------------------------------------------------ program constants
\* NOTIFIED_DEDUPE_MINUTES configured to 15 (permitted 5..1440), in
\* five-minute units
T_dedupe == 3
\* DISCOVERY_BUCKET_COOLDOWN_SECONDS configured to 300 (permitted 5..300)
T_cooldown == 1
\* PUSH_WINDOW_MINUTES = 15, in units
W_push == 3
\* DISCOVERY_MAX_CONCURRENT_BUCKETS configured to 2 (permitted 1..28)
MaxConcurrent == 2
\* DISCOVERY_WINDOW_DAYS (permitted 1..14), scaled
WindowDays == 3
\* DROP_EVENTS_RETENTION_DAYS (permitted 7..30), scaled: shorter than the
\* window, as 7 is to 14
R_drop == 1
\* the hour of the cutoff bucket id f"{today_str}_15:00" of the prunes
CutoffHour == 15
\* DISCOVERY_TIME_SLOTS, by hour: the default ["15:00", "20:30"]
DefaultTimeSlots == <<15, 20>>
\* the recency window of get_just_opened_from_buckets when the caller gives
\* none: 10 minutes, in units
JustOpenedDefault == 2
\* the cap of the push job's query, .limit(100), scaled
PushLimit == 2
\* the settings of DISCOVERY_TIME_SLOTS of the retention specification, lists
\* of one anchor: the default's first anchor, and an anchor before it
TimeSlotSettings == {<<15>>, <<12>>}

Local == 1
Peer == 2
Workers == {Local, Peer}
Slots == {"sA", "sA2"}
\* the slot the provider offers in the specification with two processes
RaceSlots == {"sA"}
Venues == {"vA"}
PartySizes == {2, 4}
\* all_bucket_ids(today): the window's buckets in their fixed order
BucketList == <<"b1", "b2", "b3">>
Buckets == {BucketList[i] : i \in DOMAIN BucketList}
\* the scheduler thread (interval job) and the startup thread, which runs
\* one tick
TickThreads == {"scheduler", "startup"}

\* slot_id = sha256(provider|venue_id|actual_time)[:32]: the venue is a
\* function of the slot id; sA and sA2 are two times of one venue
Venue(s) == "vA"

\* a nullable Text column: NULL, or the JSON array of a sorted id list
Null == << >>
Json(S) == << S >>

\* _parse_slot_ids_json: NULL / empty -> set()
ParseSlotIds(js) == IF js = Null THEN {} ELSE js[1]

NoEntry == -1
MinDt == 0

NoBucketRow == [exists |-> FALSE, baseline |-> Null, prev |-> Null]
\* ensure_buckets: DiscoveryBucket(bucket_id, date_str, time_slot), both
\* JSON columns NULL
NewBucketRow == [exists |-> TRUE, baseline |-> Null, prev |-> Null]

\* datetime columns: 0 is NULL
NoProjRow ==
    [state |-> "none", opened_at |-> 0, updated_at |-> 0, closed_at |-> 0]
\* ids of availability_state rows of one (venue, window_date)
StateIds == 1..MaxStateRows
\* no availability_state row with that id (never created, or deleted);
\* aggregated_at is kept as history when the row is deleted
NoClosedRow == [exists |-> FALSE, aggregated_at |-> FALSE]
\* no venue_metrics / market_metrics row for the key
NoMetricsRow == [exists |-> FALSE, closed |-> 0]

NoStateRow ==
    [st |-> "none", id |-> 0, opened_at |-> 0, closed_at |-> 0,
     duration_seconds |-> 0]

\* --------------------------------------------------------- venue names
\* a venue name as a DropEvent carries it: its words in lower case, and
\* whether it is written with capitals ("Tatiana" / "tatiana")
Tatiana == [words |-> <<"tatiana">>, caps |-> TRUE]
TatianaByKwame == [words |-> <<"tatiana", "by", "kwame">>, caps |-> TRUE]
Joes == [words |-> <<"joes">>, caps |-> TRUE]
VenueNames == {Tatiana, TatianaByKwame, Joes}
\* the venue names the recipient posts to the preference routes
PostedNames == {Tatiana, Joes}

\* NYC_HOTSPOT_NAMES, the built-in hotlist
NYC_HOTSPOT_NAMES == {Tatiana}

\* _normalize_venue of push_job.py and of the preference routes:
\* name.strip().lower()
normalize_venue(name) == [words |-> name.words, caps |-> FALSE]

\* _normalize of nyc_hotspots.py: accents stripped, lower case, single spaces
normalize(name) == [words |-> name.words, caps |-> FALSE]

\* _NORMALIZED_HOTSPOTS
NORMALIZED_HOTSPOTS == {normalize(n) : n \in NYC_HOTSPOT_NAMES}

\* Python's `h in n` for two normalized names, by whole words
Contains(n, h) ==
    \E i \in 1..(Len(n.words) - Len(h.words) + 1) :
        SubSeq(n.words, i, i + Len(h.words) - 1) = h.words

\* is_hotspot: the normalized name is a hotspot, or contains one, or is
\* contained in one
is_hotspot(venue_name) ==
    LET n == normalize(venue_name)
    IN  \/ n \in NORMALIZED_HOTSPOTS
        \/ \E h \in NORMALIZED_HOTSPOTS : Contains(n, h) \/ Contains(h, n)

\* no venues row of the venue_id
NoVenueRow == [exists |-> FALSE, last_seen_at |-> 0]

\* the names a notify_preferences row can hold (venue_name_normalized)
PreferenceNames == {normalize_venue(n) : n \in PostedNames}

\* no push job run has just returned
NoRun ==
    [ran |-> FALSE, watched |-> {}, selected |-> {}, notified |-> {},
     configured |-> FALSE, delivered |-> {}]

VARIABLES
    now,          \* latest clock value
    inWindow,     \* the bucket's date is inside the current window
    bucket,       \* discovery_buckets row of the bucket
    proj,         \* slot_availability rows of the bucket, by slot_id
    dropEvents,   \* drop_events rows of the bucket
    avState,      \* availability_state rows of the bucket, by slot_id
    lock,         \* holder of the bucket's advisory lock (0: free)
    nextRun,      \* _bucket_next_run[bid] of this process
    inFlight,     \* bid in _in_flight of this process
    pc,           \* position of each worker
    startNow,     \* `now` of _run_bucket_then_reenqueue
    curr,         \* curr_set of the worker
    fetchErr,     \* the provider reported an error during the worker's fetch
    rowSnap,      \* bucket_row as loaded by the worker
    toAgg,        \* to_aggregate of the worker: ids of the state rows it closed
    snapAge,      \* history: whether another worker fetched ("older"), and
                  \* then committed ("superseded"), after the worker's fetch
    horizon,      \* clock bound of the behaviour
    offered,      \* the slots the provider can return in the behaviour
    lastEmit,     \* history: opened_at of the last DropEvent inserted for
                  \* each slot (0: none), kept when the row is deleted
    \* the scheduler of one process over all window buckets (polls abstracted)
    bucket_next_run,  \* _bucket_next_run
    in_flight,        \* _in_flight
    task,             \* executor: the bucket's submitted task, if any
    taskNow,          \* `now` of the bucket's running _run_bucket_then_reenqueue
    tickPc,           \* position of each thread that runs ticks
    tickNow,          \* `now` of the thread's run_discovery_bucket_job
    to_run,           \* to_run of the thread's run_discovery_bucket_job
    \* aggregation of closed state rows of one (venue, window_date)
    stateRows,        \* availability_state rows closed so far, by id
    nextStateId,      \* next id of the availability_state sequence
    venue_metrics,    \* committed venue_metrics row of (venue, window_date)
    market_metrics,   \* committed daily_totals row of window_date
    aggPc,            \* position of each worker in its aggregation
    staged,           \* to_aggregate of the worker (ids of state rows)
    unaggregated_ids, \* unaggregated_ids of the worker's invocation
    vmRow,            \* VenueMetrics row as loaded by the worker
    mmRow,            \* MarketMetrics row as loaded by the worker
    reinvoked,        \* the aggregator was reinvoked again on the staged rows
    vmAdded,          \* history: times each row was added to venue_metrics
    mmAdded,          \* history: times each row was added to market_metrics
    aggRaised,        \* history: some invocation raised
    \* retention over the buckets of several days
    time_slots,           \* DISCOVERY_TIME_SLOTS of the deployment
    today,                \* window_start_date()
    discovery_buckets,    \* bucket ids that have a DiscoveryBucket row
    slot_availability,    \* bucket ids that have a projection row
    availability_state,   \* bucket ids that have an AvailabilityState row
    drop_events,          \* DropEvent rows (bucket id, opened_at, pushed)
    jobKind,              \* the kind of the last retention run
    jobToday,             \* `today` of the last run
    jobFailed,            \* history: a prune step of the run raised
    jobNotRun,            \* history: the steps an exception kept from running
    \* notification fan-out over the DropEvents of all buckets
    notify_preferences,   \* preference of the recipient, by normalized name
    drop_queue,           \* DropEvent rows (id, venue_name, opened_at, pushed)
    pushRun,              \* history: watched_names and the rows selected
                          \* and notified by the push job run just returned
    \* tables and history of single statements
    venues,               \* venues rows: last_seen_at by venue_id
    conflictMet,          \* history: an INSERT of DropEvent rows met a row
                          \* of the same dedupe_key
    feed_cache,           \* the feed_cache row: the two read shapes of the
                          \* last refresh and its recency window
    bucket_rows,          \* discovery_buckets rows with their columns, by
                          \* bucket id
    lastCall              \* history: the last statement on bucket_rows

dbVars == <<bucket, proj, dropEvents, avState>>
schedVars == <<nextRun, inFlight>>
workerVars == <<pc, startNow, curr, fetchErr, rowSnap, toAgg, snapAge>>
histVars == <<lastEmit, horizon, offered>>
poolVars == <<bucket_next_run, in_flight, task, taskNow, tickPc, tickNow,
              to_run>>
aggVars == <<stateRows, nextStateId, venue_metrics, market_metrics, aggPc,
             staged, unaggregated_ids, vmRow, mmRow, reinvoked, vmAdded,
             mmAdded, aggRaised>>
vars == <<now, inWindow, bucket, proj, dropEvents, avState, lock, nextRun,
          inFlight, pc, startNow, curr, fetchErr, rowSnap, toAgg, snapAge,
          lastEmit,
          horizon, offered, bucket_next_run, in_flight, task, taskNow,
          tickPc, tickNow, to_run, stateRows, nextStateId, venue_metrics,
          market_metrics, aggPc, staged, unaggregated_ids, vmRow, mmRow,
          reinvoked, vmAdded, mmAdded, aggRaised, time_slots, today,
          discovery_buckets, slot_availability, availability_state,
          drop_events, jobKind, jobToday, jobFailed, jobNotRun,
          notify_preferences, drop_queue, pushRun, venues, conflictMet,
          feed_cache, bucket_rows, lastCall>>

auxVars == <<venues, conflictMet, feed_cache, bucket_rows, lastCall>>

fanVars == <<notify_preferences, drop_queue, pushRun>>

retVars == <<time_slots, today, discovery_buckets, slot_availability,
             availability_state, drop_events, jobKind, jobToday, jobFailed,
             jobNotRun>>

\* every bucket id the window can hold while the day counter runs
AllBucketIds ==
    UNION {{<<d, ts[i]>> : d \in 0..(MaxDay + WindowDays - 1), i \in DOMAIN ts} :
              ts \in TimeSlotSettings}

\* no discovery_buckets row of the id
NoDiscoveryBucket ==
    [exists |-> FALSE, baseline |-> Null, prev |-> Null, scanned_at |-> Null]

\* DiscoveryBucket(bucket_id, date_str, time_slot): the JSON columns and
\* scanned_at NULL
NewDiscoveryBucket ==
    [exists |-> TRUE, baseline |-> Null, prev |-> Null, scanned_at |-> Null]

\* no feed_cache row
NoFeed == [cached |-> FALSE, minutes |-> 0, just_opened |-> {}, still_open |-> {}]

\* the state after construction, for a clock bound, a provider and a
\* DISCOVERY_TIME_SLOTS setting
InitWith(h, S, ts) ==
    /\ venues = [v \in Venues |-> NoVenueRow]
    /\ feed_cache = NoFeed
    /\ bucket_rows = [b \in AllBucketIds |-> NoDiscoveryBucket]
    /\ lastCall = "none"
    /\ conflictMet = FALSE
    /\ notify_preferences = [n \in PreferenceNames |-> "none"]
    /\ drop_queue = {}
    /\ pushRun = NoRun
    /\ time_slots = ts
    /\ today = 0
    /\ discovery_buckets = {}
    /\ slot_availability = {}
    /\ availability_state = {}
    /\ drop_events = {}
    /\ jobKind = "none"
    /\ jobToday = 0
    /\ jobFailed = FALSE
    /\ jobNotRun = {}
    /\ horizon = h
    /\ offered = S
    /\ now = 0
    /\ inWindow = TRUE
    /\ bucket = NoBucketRow
    /\ proj = [s \in Slots |-> NoProjRow]
    /\ dropEvents = {}
    /\ avState = [s \in Slots |-> NoStateRow]
    /\ lock = 0
    /\ nextRun = NoEntry
    /\ inFlight = FALSE
    /\ pc = [w \in Workers |-> "idle"]
    /\ startNow = 0
    /\ curr = [w \in Workers |-> {}]
    /\ fetchErr = [w \in Workers |-> FALSE]
    /\ rowSnap = [w \in Workers |-> NoBucketRow]
    /\ toAgg = [w \in Workers |-> {}]
    /\ snapAge = [w \in Workers |-> "newest"]
    /\ lastEmit = [s \in Slots |-> 0]
    /\ bucket_next_run = [b \in Buckets |-> NoEntry]
    /\ in_flight = {}
    /\ task = [b \in Buckets |-> "none"]
    /\ taskNow = [b \in Buckets |-> 0]
    /\ tickPc = [th \in TickThreads |-> "idle"]
    /\ tickNow = [th \in TickThreads |-> 0]
    /\ to_run = [th \in TickThreads |-> {}]
    /\ stateRows = [i \in StateIds |-> NoClosedRow]
    /\ nextStateId = 1
    /\ venue_metrics = NoMetricsRow
    /\ market_metrics = NoMetricsRow
    /\ aggPc = [w \in Workers |-> "idle"]
    /\ staged = [w \in Workers |-> {}]
    /\ unaggregated_ids = [w \in Workers |-> {}]
    /\ vmRow = [w \in Workers |-> NoMetricsRow]
    /\ mmRow = [w \in Workers |-> NoMetricsRow]
    /\ reinvoked = [w \in Workers |-> FALSE]
    /\ vmAdded = [i \in StateIds |-> 0]
    /\ mmAdded = [i \in StateIds |-> 0]
    /\ aggRaised = FALSE

\* the default setting of DISCOVERY_TIME_SLOTS
InitAt(h, S) == InitWith(h, S, DefaultTimeSlots)

Init == InitAt(MaxShortTime, Slots)

SeqInit == InitAt(MaxTime, Slots)

PoolInit == InitAt(MaxPoolTime, Slots)

RaceInit == InitAt(MaxRaceTime, RaceSlots)

\* ------------------------------------------------------------ provider
\* one search_with_availability result: {"error": ...} or the venues' slots
SearchResults ==
    {[error |-> TRUE, slots |-> {}]}
        \cup {[error |-> FALSE, slots |-> S] : S \in SUBSET Slots}

\* ResyProvider.search_availability: a party size whose result carries
\* "error" is skipped; the other results are merged by slot id
search_availability(res) ==
    UNION {IF res[k].error THEN {} ELSE res[k].slots : k \in PartySizes}

\* fetch_for_bucket: an exception of the provider is logged and [] returned
fetch_for_bucket(res, raised) ==
    IF raised THEN {} ELSE search_availability(res)

\* what one fetch can return, with whether the provider failed in it (an
\* exception, or an error result for a party size)
FetchOutcomes ==
    {[rows |-> fetch_for_bucket(res, raised),
      err |-> raised \/ \E k \in PartySizes : res[k].error] :
        res \in [PartySizes -> SearchResults], raised \in BOOLEAN}

\* the row lists one fetch can return
FetchedRows == {f.rows : f \in FetchOutcomes}

\* ------------------------------------------------- run_poll_for_bucket
\* variant: the lock is granted to every caller
TryAdvisoryLock_granted(holder, w) == TRUE

\* pg_try_advisory_xact_lock: granted unless another session holds it
TryAdvisoryLock(holder, w) == holder = 0 \/ holder = w

\* added = curr_set - prev_set
Added(curr_set, prev_set) == curr_set \ prev_set

\* venue ids of the projection rows (any state) whose slot id is in prev_set
PrevVenueIds(pr, prev_set) ==
    {Venue(s) : s \in {x \in prev_set : pr[x].state # "none"}}

DropsVenueZero(drops, prev_venue_ids) ==
    {s \in drops : Venue(s) \notin prev_venue_ids}

\* slot ids of the DropEvent rows with opened_at >= now - NOTIFIED_DEDUPE_MINUTES
RecentlyNotified(events, t) ==
    {e.slot : e \in {x \in events : x.opened_at >= t - T_dedupe}}

\* variant: the projection upsert writes nothing
UpsertOpen_skipped(pr, sids, t) == pr

\* INSERT .. ON CONFLICT (bucket_id, slot_id) DO UPDATE ..
\* WHERE slot_availability.updated_at < excluded.updated_at
UpsertOpen(pr, sids, t) ==
    [s \in Slots |->
        IF s \in sids /\ (pr[s].state = "none" \/ pr[s].updated_at < t)
        THEN [state |-> "open", opened_at |-> t, updated_at |-> t,
              closed_at |-> 0]
        ELSE pr[s]]

\* dedupe_key = bucket_id|slot_id|minute(opened_at)
DedupeKey(e) == <<e.slot, e.opened_at>>

\* variant: the rows are inserted whether or not the key is there
InsertDropEvents_plain(events, sids, t) ==
    events \cup {[slot |-> s, opened_at |-> t, pushed |-> FALSE] : s \in sids}

\* INSERT INTO drop_events .. ON CONFLICT (dedupe_key) DO NOTHING
InsertDropEvents(events, sids, t) ==
    events \cup
        {e \in {[slot |-> s, opened_at |-> t, pushed |-> FALSE] : s \in sids} :
            \A x \in events : DedupeKey(x) # DedupeKey(e)}

\* availability_state: insert for every added slot without an open row;
\* ON CONFLICT (bucket_id, slot_id) the existing row is re-opened in place
UpsertState(av, sids, t) ==
    [s \in Slots |->
        IF s \in sids /\ av[s].st # "open"
        THEN IF av[s].st = "none"
             THEN [st |-> "open", id |-> t, opened_at |-> t,
                   closed_at |-> 0, duration_seconds |-> 0]
             ELSE [st |-> "open", id |-> av[s].id, opened_at |-> t,
                   closed_at |-> 0,
                   duration_seconds |-> av[s].duration_seconds]
        ELSE av[s]]

\* projection rows that are open in the DB but not in curr_set
ClosedSlotIds(pr, curr_set) ==
    {s \in Slots : pr[s].state = "open" /\ s \notin curr_set}

\* bulk UPDATE of the closed rows (no updated_at predicate)
CloseRows(pr, closed, t) ==
    [s \in Slots |->
        IF s \in closed
        THEN [state |-> "closed", opened_at |-> pr[s].opened_at,
              updated_at |-> t, closed_at |-> t]
        ELSE pr[s]]

\* the open AvailabilityState row of every closed slot gets closed_at = now
\* and duration_seconds = now - opened_at of the projection row; a closed
\* row with a negative duration is skipped
CloseStates(av, pr, closed, t) ==
    [s \in Slots |->
        IF s \in closed /\ av[s].st = "open" /\ t - pr[s].opened_at >= 0
        THEN [av[s] EXCEPT !.st = "closed", !.closed_at = t,
                           !.duration_seconds = t - pr[s].opened_at]
        ELSE av[s]]

\* variant: the DropEvents of the closed slots are deleted, sent or not
DeleteClosedPushed_all(events, closed) ==
    {e \in events : e.slot \notin closed}

\* DELETE FROM drop_events WHERE slot_id IN closed AND push_sent_at IS NOT NULL
DeleteClosedPushed(events, closed) ==
    {e \in events : ~(e.slot \in closed /\ e.pushed)}

\* the ORM flushes only the attributes whose value differs from the loaded one
FlushColumn(loaded, assigned, committed) ==
    IF assigned = loaded THEN committed ELSE assigned


\* run_baseline_for_bucket: baseline = prev = curr, projection untouched
run_baseline_for_bucket(fetched) ==
    [exists |-> TRUE, baseline |-> Json(fetched), prev |-> Json(fetched)]

\* -------------------------------------------------------------- scheduler
\* run_discovery_bucket_job: ensure_buckets, prune_old_buckets, the throttled
\* prunes (the tick counter is abstracted to a choice), then reconcile
\* _bucket_next_run with the window and dispatch the bucket if it is ready
Tick ==
    \E pruneEvents \in BOOLEAN, pruneProj \in BOOLEAN :
        LET ensured == IF inWindow /\ ~bucket.exists THEN NewBucketRow
                       ELSE bucket
            nr == IF ~inWindow THEN NoEntry
                  ELSE IF nextRun = NoEntry THEN MinDt ELSE nextRun
            ready == inWindow /\ ~inFlight /\ nr <= now
        IN  /\ bucket' = IF inWindow THEN ensured ELSE NoBucketRow
            /\ dropEvents' = IF ~inWindow /\ pruneEvents THEN {}
                             ELSE dropEvents
            /\ proj' = IF ~inWindow /\ pruneProj
                       THEN [s \in Slots |-> NoProjRow] ELSE proj
            /\ nextRun' = nr
            /\ inFlight' = (inFlight \/ ready)
            /\ pc' = [pc EXCEPT ![Local] = IF ready THEN "queued" ELSE @]
            /\ UNCHANGED <<now, inWindow, avState, lock, startNow, curr,
                           fetchErr, rowSnap, toAgg, snapAge, histVars, poolVars, aggVars, retVars, fanVars, auxVars>>

\* _run_bucket_then_reenqueue, first statement: now = datetime.now()
WorkerStart ==
    /\ pc[Local] = "queued"
    /\ pc' = [pc EXCEPT ![Local] = "started"]
    /\ startNow' = now
    /\ UNCHANGED <<now, inWindow, dbVars, lock, schedVars, curr, fetchErr,
                   rowSnap, toAgg, snapAge, histVars, poolVars, aggVars, retVars, fanVars, auxVars>>

\* another process calls _poll_one_bucket for the bucket
PeerStart ==
    /\ pc[Peer] = "idle"
    /\ pc' = [pc EXCEPT ![Peer] = "started"]
    /\ UNCHANGED <<now, inWindow, dbVars, lock, schedVars, startNow, curr,
                   fetchErr, rowSnap, toAgg, snapAge, histVars, poolVars, aggVars, retVars, fanVars, auxVars>>

\* run_poll_for_bucket: rows = fetch_for_bucket(..); curr_set = their ids
Fetch(w) ==
    /\ pc[w] = "started"
    /\ \E f \in FetchOutcomes :
        /\ f.rows \subseteq offered
        /\ curr' = [curr EXCEPT ![w] = f.rows]
        /\ fetchErr' = [fetchErr EXCEPT ![w] = f.err]
    /\ pc' = [pc EXCEPT ![w] = "fetched"]
    /\ snapAge' = [v \in Workers |->
                      IF v = w THEN "newest"
                      ELSE IF pc[v] \in {"fetched", "loaded", "locked"}
                              /\ snapAge[v] = "newest"
                           THEN "older" ELSE snapAge[v]]
    /\ UNCHANGED <<now, inWindow, dbVars, lock, schedVars, startNow,
                   rowSnap, toAgg, histVars, poolVars, aggVars, retVars, fanVars, auxVars>>

\* bucket_row = db.query(DiscoveryBucket)...first(), issued before the lock
LoadRow(w) ==
    /\ pc[w] = "fetched"
    /\ rowSnap' = [rowSnap EXCEPT ![w] = bucket]
    /\ pc' = [pc EXCEPT ![w] = "loaded"]
    /\ UNCHANGED <<now, inWindow, dbVars, lock, schedVars, startNow, curr,
                   fetchErr, toAgg, snapAge, histVars, poolVars, aggVars, retVars, fanVars, auxVars>>

\* the poll of w ends; if it committed, the snapshots that are older than
\* the one it fetched are superseded
EndOfSnapshot(w, committed) ==
    snapAge' = [v \in Workers |->
                   IF v = w THEN "newest"
                   ELSE IF committed /\ snapAge[v] = "older"
                        THEN "superseded" ELSE snapAge[v]]

\* run_poll_for_bucket returns or raises: its locals are gone
ReturnFromPoll(w) ==
    /\ curr' = [curr EXCEPT ![w] = {}]
    /\ fetchErr' = [fetchErr EXCEPT ![w] = FALSE]
    /\ rowSnap' = [rowSnap EXCEPT ![w] = NoBucketRow]

\* SELECT pg_try_advisory_xact_lock(:k); not acquired: rollback and return
TryLock(w) ==
    /\ pc[w] = "loaded"
    /\ IF TryAdvisoryLock(lock, w)
       THEN /\ lock' = w
            /\ pc' = [pc EXCEPT ![w] = "locked"]
            /\ UNCHANGED <<curr, fetchErr, rowSnap, snapAge>>
       ELSE /\ lock' = lock
            /\ pc' = [pc EXCEPT ![w] = "skipped"]
            /\ ReturnFromPoll(w)
            /\ EndOfSnapshot(w, FALSE)
    /\ UNCHANGED <<now, inWindow, dbVars, schedVars, startNow, toAgg,
                   histVars, poolVars, aggVars, retVars, fanVars, auxVars>>

\* variant: only a missing row is a first observation
IsBootstrap_rowOnly(row) == ~row.exists

\* the bucket row is missing or its baseline_slot_ids_json is NULL
IsBootstrap(row) == ~row.exists \/ row.baseline = Null

\* the tables as the poll's transaction of worker w has written them when it
\* reaches db.commit() at time t, with the rows it staged for aggregation
PollTx(w, t) ==
    LET row == rowSnap[w]
        curr_set == curr[w]
        js == Json(curr_set)
        prev_set == ParseSlotIds(row.prev)
        added == Added(curr_set, prev_set)
        prev_venue_ids == PrevVenueIds(proj, prev_set)
        drops_venue_zero == DropsVenueZero(added, prev_venue_ids)
        drops_to_emit == drops_venue_zero \ RecentlyNotified(dropEvents, t)
        proj1 == UpsertOpen(proj, added, t)
        events1 == InsertDropEvents(dropEvents, drops_to_emit, t)
        av1 == UpsertState(avState, added, t)
        closed_slot_ids == ClosedSlotIds(proj1, curr_set)
        to_aggregate == {[slot |-> s, id |-> av1[s].id] :
                            s \in {x \in closed_slot_ids :
                                      /\ av1[x].st = "open"
                                      /\ t - proj1[x].opened_at >= 0}}
    IN  IF IsBootstrap(row)
        THEN [bucket |-> [exists |-> TRUE,
                          baseline |-> js,
                          prev |-> IF row.exists
                                   THEN FlushColumn(row.prev, js, bucket.prev)
                                   ELSE js],
              proj |-> UpsertOpen(proj, curr_set, t),
              dropEvents |-> dropEvents,
              avState |-> avState,
              to_aggregate |-> {}]
        ELSE [bucket |-> [bucket EXCEPT
                             !.prev = FlushColumn(row.prev, js, bucket.prev)],
              proj |-> CloseRows(proj1, closed_slot_ids, t),
              dropEvents |-> DeleteClosedPushed(events1, closed_slot_ids),
              avState |-> CloseStates(av1, proj1, closed_slot_ids, t),
              to_aggregate |-> to_aggregate]

\* the committed tables
Committed ==
    [bucket |-> bucket, proj |-> proj, dropEvents |-> dropEvents,
     avState |-> avState]

\* the poll's transaction from `now = datetime.now()` to db.commit().
\* An INSERT of a bucket row that exists by now, or an UPDATE of one that
\* was deleted, fails the transaction (PollFail is then the only outcome).
PollCommit(w) ==
    /\ pc[w] = "locked"
    /\ now < horizon
    /\ rowSnap[w].exists = bucket.exists
    /\ LET t == now + 1
           tx == PollTx(w, t)
       IN  /\ now' = t
           /\ bucket' = tx.bucket
           /\ proj' = tx.proj
           /\ dropEvents' = tx.dropEvents
           /\ avState' = tx.avState
           /\ toAgg' = [toAgg EXCEPT ![w] = tx.to_aggregate]
           /\ lastEmit' = [s \in Slots |->
                IF \E e \in tx.dropEvents \ dropEvents : e.slot = s
                THEN t ELSE lastEmit[s]]
           /\ pc' = [pc EXCEPT ![w] =
                        IF tx.to_aggregate = {} THEN "done" ELSE "committed"]
    /\ lock' = 0
    /\ ReturnFromPoll(w)
    /\ EndOfSnapshot(w, TRUE)
    /\ UNCHANGED <<inWindow, schedVars, startNow, horizon, offered, poolVars, aggVars, retVars, fanVars, auxVars>>

\* the poll's transaction in a process of another instance whose
\* datetime.now() is behind: its `now` is not after the timestamps stored
PeerCommitBehind ==
    /\ pc[Peer] = "locked"
    /\ rowSnap[Peer].exists = bucket.exists
    /\ \E t \in 1..now :
          \E tx \in {PollTx(Peer, t)} :
           /\ bucket' = tx.bucket
           /\ proj' = tx.proj
           /\ dropEvents' = tx.dropEvents
           /\ avState' = tx.avState
           /\ toAgg' = [toAgg EXCEPT ![Peer] = tx.to_aggregate]
           /\ lastEmit' = [s \in Slots |->
                IF \E e \in tx.dropEvents \ dropEvents : e.slot = s
                THEN t ELSE lastEmit[s]]
           /\ pc' = [pc EXCEPT ![Peer] =
                        IF tx.to_aggregate = {} THEN "done" ELSE "committed"]
    /\ lock' = 0
    /\ ReturnFromPoll(Peer)
    /\ EndOfSnapshot(Peer, TRUE)
    /\ UNCHANGED <<now, inWindow, schedVars, startNow, horizon, offered,
                   poolVars, aggVars, retVars, fanVars, auxVars>>

\* variant: the writes of the failed transaction stay
Rollback_kept(committed, pending) ==
    [bucket |-> pending.bucket, proj |-> pending.proj,
     dropEvents |-> pending.dropEvents, avState |-> pending.avState]

\* db.rollback() / db.close(): the uncommitted writes are discarded
Rollback(committed, pending) == committed

\* an exception inside the transaction (or a failed commit): the session is
\* rolled back (run_poll_for_bucket) or closed (_poll_one_bucket), the
\* transaction-scoped lock is released
PollFail(w) ==
    /\ pc[w] = "locked"
    /\ pc' = [pc EXCEPT ![w] = "failed"]
    /\ LET after == Rollback(Committed, PollTx(w, now + 1))
       IN  /\ bucket' = after.bucket
           /\ proj' = after.proj
           /\ dropEvents' = after.dropEvents
           /\ avState' = after.avState
    /\ lock' = 0
    /\ ReturnFromPoll(w)
    /\ EndOfSnapshot(w, FALSE)
    /\ UNCHANGED <<now, inWindow, schedVars, startNow, toAgg, histVars, poolVars, aggVars, retVars, fanVars, auxVars>>

\* after the commit: aggregate_closed_events_into_metrics, then delete the
\* closed state rows by id; an exception is logged and swallowed
Aggregate(w) ==
    /\ pc[w] = "committed"
    /\ \E ok \in BOOLEAN :
        avState' = IF ok
                   THEN [s \in Slots |->
                            IF /\ avState[s].st # "none"
                               /\ [slot |-> s, id |-> avState[s].id] \in toAgg[w]
                            THEN NoStateRow ELSE avState[s]]
                   ELSE avState
    /\ pc' = [pc EXCEPT ![w] = "done"]
    /\ toAgg' = [toAgg EXCEPT ![w] = {}]
    /\ UNCHANGED <<now, inWindow, bucket, proj, dropEvents, lock, schedVars,
                   startNow, curr, fetchErr, rowSnap, snapAge, histVars, poolVars, aggVars, retVars, fanVars, auxVars>>

\* variant: the bucket is re-enqueued only after a poll that completed
Reenqueue_doneOnly ==
    /\ pc[Local] \in {"skipped", "failed", "done"}
    /\ inFlight' = (pc[Local] # "done")
    /\ nextRun' = IF pc[Local] = "done" THEN startNow + T_cooldown
                  ELSE nextRun
    /\ pc' = [pc EXCEPT ![Local] = "idle"]
    /\ startNow' = 0
    /\ UNCHANGED <<now, inWindow, dbVars, lock, curr, fetchErr, rowSnap,
                   toAgg, snapAge, histVars, poolVars, aggVars, retVars, fanVars, auxVars>>

\* _run_bucket_then_reenqueue, finally: discard from _in_flight and set
\* _bucket_next_run[bid] = now + cooldown (now: taken before the poll)
Reenqueue ==
    /\ pc[Local] \in {"skipped", "failed", "done"}
    /\ inFlight' = FALSE
    /\ nextRun' = startNow + T_cooldown
    /\ pc' = [pc EXCEPT ![Local] = "idle"]
    /\ startNow' = 0
    /\ UNCHANGED <<now, inWindow, dbVars, lock, curr, fetchErr, rowSnap,
                   toAgg, snapAge, histVars, poolVars, aggVars, retVars, fanVars, auxVars>>

\* _poll_one_bucket returns in the other process
PeerReturn ==
    /\ pc[Peer] \in {"skipped", "failed", "done"}
    /\ pc' = [pc EXCEPT ![Peer] = "idle"]
    /\ UNCHANGED <<now, inWindow, dbVars, lock, schedVars, startNow, curr,
                   fetchErr, rowSnap, toAgg, snapAge, histVars, poolVars, aggVars, retVars, fanVars, auxVars>>

\* ------------------------------------------------------ notification job
\* run_push_for_new_drops_job: the unsent events inside the push window whose
\* venue is on the notify list are stamped push_sent_at (whatever transports
\* are configured); the notify list is an input
PushJob ==
    \E watched \in SUBSET Venues :
        /\ watched # {}
        /\ dropEvents' =
             {IF ~e.pushed /\ e.opened_at >= now - W_push
                    /\ Venue(e.slot) \in watched
              THEN [e EXCEPT !.pushed = TRUE] ELSE e : e \in dropEvents}
        /\ UNCHANGED <<now, inWindow, bucket, proj, avState, lock, schedVars,
                       workerVars, histVars, poolVars, aggVars, retVars, fanVars, auxVars>>

\* ------------------------------------------------- baseline and retention
\* run_sliding_window_job: the prunes (they remove the rows of a bucket that
\* left the window), ensure_buckets, then run_baseline_for_bucket for the
\* anchors of the newest day (isNewDay: the bucket is one of them)
SlidingWindowJob ==
    \E isNewDay \in BOOLEAN, rows \in FetchedRows :
        /\ rows \subseteq offered
        /\ bucket' = IF ~inWindow THEN NoBucketRow
                     ELSE IF isNewDay
                          THEN run_baseline_for_bucket(rows)
                          ELSE IF ~bucket.exists THEN NewBucketRow ELSE bucket
        /\ dropEvents' = IF ~inWindow THEN {} ELSE dropEvents
        /\ proj' = IF ~inWindow THEN [s \in Slots |-> NoProjRow] ELSE proj
        /\ UNCHANGED <<now, inWindow, avState, lock, schedVars, workerVars,
                       histVars, poolVars, aggVars, retVars, fanVars, auxVars>>

\* refresh_baselines_for_all_buckets: ensure_buckets, then
\* run_baseline_for_bucket for every bucket of the window
RefreshBaselines ==
    /\ inWindow
    /\ \E rows \in FetchedRows :
        /\ rows \subseteq offered
        /\ bucket' = run_baseline_for_bucket(rows)
    /\ UNCHANGED <<now, inWindow, proj, dropEvents, avState, lock, schedVars,
                   workerVars, histVars, poolVars, aggVars, retVars, fanVars, auxVars>>

\* ------------------------------------------------------------ environment
\* time passes
AdvanceClock ==
    /\ now < horizon
    /\ now' = now + 1
    /\ UNCHANGED <<inWindow, dbVars, lock, schedVars, workerVars, histVars, poolVars, aggVars, retVars, fanVars, auxVars>>

\* window_start_date() moves past the bucket's date
DayRollover ==
    /\ inWindow
    /\ inWindow' = FALSE
    /\ UNCHANGED <<now, dbVars, lock, schedVars, workerVars, histVars, poolVars, aggVars, retVars, fanVars, auxVars>>

\* ------------------------------------- scheduler over the window's buckets
\* the state of the one-bucket model, which the steps below leave alone
oneBucketVars == <<inWindow, dbVars, lock, schedVars, workerVars, histVars>>

\* position of b in all_bucket_ids
BucketIndex(b) == CHOOSE i \in DOMAIN BucketList : BucketList[i] = b

\* variant: the buckets whose cooldown has elapsed, in flight or not
Ready_anyFlight(next_run, inflight, t) ==
    {b \in Buckets : next_run[b] <= t}

\* ready: bid not in _in_flight and _bucket_next_run.get(bid, min_dt) <= now
Ready(next_run, inflight, t) ==
    {b \in Buckets : b \notin inflight /\ next_run[b] <= t}

\* ready[:n]
FirstN(ready, n) ==
    {b \in ready :
        Cardinality({x \in ready : BucketIndex(x) < BucketIndex(b)}) < n}

\* where a thread is after its tick: the startup thread runs one tick
TickEnd(th) == IF th = "startup" THEN "finished" ELSE "idle"

\* run_discovery_bucket_job up to `now = datetime.now()` (the DB statements
\* of this part are those of Tick)
TickPrepare(th) ==
    /\ tickPc[th] = "idle"
    /\ tickPc' = [tickPc EXCEPT ![th] = "prepared"]
    /\ tickNow' = [tickNow EXCEPT ![th] = now]
    /\ UNCHANGED <<now, oneBucketVars, aggVars, retVars, fanVars, auxVars, bucket_next_run, in_flight, task,
                   taskNow, to_run>>

\* run_discovery_bucket_job, `with _lock:` -- new buckets get min_dt, ready
\* is computed, to_run = ready[:DISCOVERY_MAX_CONCURRENT_BUCKETS] is added
\* to _in_flight
TickDispatch(th) ==
    /\ tickPc[th] = "prepared"
    /\ LET next_run == [b \in Buckets |->
                          IF bucket_next_run[b] = NoEntry THEN MinDt
                          ELSE bucket_next_run[b]]
           ready == Ready(next_run, in_flight, tickNow[th])
           chosen == FirstN(ready, MaxConcurrent)
       IN  /\ bucket_next_run' = next_run
           /\ in_flight' = in_flight \cup chosen
           /\ to_run' = [to_run EXCEPT ![th] = chosen]
           /\ tickPc' = [tickPc EXCEPT ![th] =
                            IF chosen = {} THEN TickEnd(th) ELSE "dispatched"]
    /\ UNCHANGED <<now, oneBucketVars, aggVars, retVars, fanVars, auxVars, task, taskNow, tickNow>>

\* run_discovery_bucket_job after the lock: executor.submit for every
\* bucket of to_run
TickSubmit(th) ==
    /\ tickPc[th] = "dispatched"
    /\ task' = [b \in Buckets |->
                   IF b \in to_run[th] THEN "queued" ELSE task[b]]
    /\ to_run' = [to_run EXCEPT ![th] = {}]
    /\ tickPc' = [tickPc EXCEPT ![th] = TickEnd(th)]
    /\ UNCHANGED <<now, oneBucketVars, aggVars, retVars, fanVars, auxVars, bucket_next_run, in_flight, taskNow,
                   tickNow>>

\* a thread of the executor (max_workers = DISCOVERY_MAX_CONCURRENT_BUCKETS)
\* starts _run_bucket_then_reenqueue: now = datetime.now()
WorkerBegin(b) ==
    /\ task[b] = "queued"
    /\ Cardinality({x \in Buckets : task[x] = "running"}) < MaxConcurrent
    /\ task' = [task EXCEPT ![b] = "running"]
    /\ taskNow' = [taskNow EXCEPT ![b] = now]
    /\ UNCHANGED <<now, oneBucketVars, aggVars, retVars, fanVars, auxVars, bucket_next_run, in_flight, tickPc,
                   tickNow, to_run>>

\* _run_bucket_then_reenqueue, finally, `with _lock:`
WorkerEnd(b) ==
    /\ task[b] = "running"
    /\ in_flight' = in_flight \ {b}
    /\ bucket_next_run' = [bucket_next_run EXCEPT ![b] = taskNow[b] + T_cooldown]
    /\ task' = [task EXCEPT ![b] = "none"]
    /\ taskNow' = [taskNow EXCEPT ![b] = 0]
    /\ UNCHANGED <<now, oneBucketVars, aggVars, retVars, fanVars, auxVars, tickPc, tickNow, to_run>>

\* Steady state: the clock is kept relative to the present, so that one unit
\* of time passing moves every stored time one unit into the past.  A tick
\* takes less than a unit; a poll takes at most MaxLatency units.
TimePasses ==
    /\ \A th \in TickThreads : tickPc[th] \in {"idle", "finished"}
    /\ \A b \in Buckets : task[b] = "running" => taskNow[b] > -MaxLatency
    /\ bucket_next_run' = [b \in Buckets |->
                              IF bucket_next_run[b] > MinDt
                              THEN bucket_next_run[b] - 1
                              ELSE bucket_next_run[b]]
    /\ taskNow' = [b \in Buckets |->
                      IF task[b] = "running" THEN taskNow[b] - 1
                      ELSE taskNow[b]]
    /\ UNCHANGED <<now, oneBucketVars, aggVars, retVars, fanVars, auxVars, in_flight, task, tickPc,
                   tickNow, to_run>>

\* ------------------------------------------------------------ aggregation
\* Two workers (of different buckets) aggregate closed state rows of the
\* same (venue, window_date).  Each runs on its own session; every commit
\* of aggregate_closed_events_into_metrics is one step (READ COMMITTED).

aggFrame == <<now, oneBucketVars, poolVars, retVars, fanVars, auxVars>>

\* the .first() of the query by the unique key
LoadMetrics(committed) == committed

\* the row after `row.closed_count = old_closed + added_closed` (or
\* value["total_closed"]), computed from the row as it was loaded; without a
\* loaded row, the row inserted with closed_count = added_closed
Incremented(loaded, added_closed) ==
    [exists |-> TRUE,
     closed |-> (IF loaded.exists THEN loaded.closed ELSE 0) + added_closed]

\* the INSERT of a key that another session committed meanwhile violates
\* the table's unique constraint
UniqueViolation(loaded, committed) == ~loaded.exists /\ committed.exists

\* the invocation returns or raises: its locals are gone
AggReturn(w) ==
    /\ unaggregated_ids' = [unaggregated_ids EXCEPT ![w] = {}]
    /\ vmRow' = [vmRow EXCEPT ![w] = NoMetricsRow]
    /\ mmRow' = [mmRow EXCEPT ![w] = NoMetricsRow]

\* run_poll_for_bucket closes an open state row of the (venue, date) and
\* commits; the row is the worker's to_aggregate
AggStage(w) ==
    /\ aggPc[w] \in {"idle", "returned", "failed"}
    /\ nextStateId <= MaxStateRows
    /\ stateRows' = [stateRows EXCEPT ![nextStateId] =
                        [exists |-> TRUE, aggregated_at |-> FALSE]]
    /\ staged' = [staged EXCEPT ![w] = {nextStateId}]
    /\ nextStateId' = nextStateId + 1
    /\ reinvoked' = [reinvoked EXCEPT ![w] = FALSE]
    /\ aggPc' = [aggPc EXCEPT ![w] = "staged"]
    /\ UNCHANGED <<aggFrame, venue_metrics, market_metrics, unaggregated_ids,
                   vmRow, mmRow, vmAdded, mmAdded, aggRaised>>

\* aggregate_closed_events_into_metrics up to to_process: the ids of the
\* events' rows with aggregated_at IS NULL; nothing to process: return
AggInvoke(w) ==
    /\ \/ aggPc[w] = "staged"
       \/ aggPc[w] \in {"returned", "failed"} /\ staged[w] # {}
          /\ ~reinvoked[w]
    /\ reinvoked' = [reinvoked EXCEPT ![w] = aggPc[w] # "staged"]
    /\ LET ids == {i \in staged[w] : /\ stateRows[i].exists
                                      /\ ~stateRows[i].aggregated_at}
       IN /\ unaggregated_ids' = [unaggregated_ids EXCEPT ![w] = ids]
          /\ aggPc' = [aggPc EXCEPT ![w] =
                          IF ids = {} THEN "returned" ELSE "selected"]
    /\ UNCHANGED <<aggFrame, stateRows, nextStateId, venue_metrics,
                   market_metrics, staged, vmRow, mmRow, vmAdded, mmAdded,
                   aggRaised>>

\* row = db.query(VenueMetrics)...first()
AggReadVenue(w) ==
    /\ aggPc[w] = "selected"
    /\ vmRow' = [vmRow EXCEPT ![w] = LoadMetrics(venue_metrics)]
    /\ aggPc' = [aggPc EXCEPT ![w] = "venueRead"]
    /\ UNCHANGED <<aggFrame, stateRows, nextStateId, venue_metrics,
                   market_metrics, staged, unaggregated_ids, mmRow,
                   reinvoked, vmAdded, mmAdded, aggRaised>>

\* the incremental upsert of venue_metrics and its db.commit()
AggCommitVenue(w) ==
    /\ aggPc[w] = "venueRead"
    /\ IF UniqueViolation(vmRow[w], venue_metrics)
       THEN /\ aggPc' = [aggPc EXCEPT ![w] = "failed"]
            /\ aggRaised' = TRUE
            /\ AggReturn(w)
            /\ UNCHANGED <<venue_metrics, vmAdded>>
       ELSE /\ venue_metrics' =
                    Incremented(vmRow[w], Cardinality(unaggregated_ids[w]))
            /\ vmAdded' = [i \in StateIds |->
                              IF i \in unaggregated_ids[w]
                              THEN vmAdded[i] + 1 ELSE vmAdded[i]]
            /\ aggPc' = [aggPc EXCEPT ![w] = "venueCommitted"]
            /\ UNCHANGED <<aggRaised, unaggregated_ids, vmRow, mmRow>>
    /\ UNCHANGED <<aggFrame, stateRows, nextStateId, market_metrics, staged,
                   reinvoked, mmAdded>>

\* row = db.query(MarketMetrics)...first()
AggReadMarket(w) ==
    /\ aggPc[w] = "venueCommitted"
    /\ mmRow' = [mmRow EXCEPT ![w] = LoadMetrics(market_metrics)]
    /\ aggPc' = [aggPc EXCEPT ![w] = "marketRead"]
    /\ UNCHANGED <<aggFrame, stateRows, nextStateId, venue_metrics,
                   market_metrics, staged, unaggregated_ids, vmRow,
                   reinvoked, vmAdded, mmAdded, aggRaised>>

\* the incremental update of daily_totals and its db.commit()
AggCommitMarket(w) ==
    /\ aggPc[w] = "marketRead"
    /\ IF UniqueViolation(mmRow[w], market_metrics)
       THEN /\ aggPc' = [aggPc EXCEPT ![w] = "failed"]
            /\ aggRaised' = TRUE
            /\ AggReturn(w)
            /\ UNCHANGED <<market_metrics, mmAdded>>
       ELSE /\ market_metrics' =
                    Incremented(mmRow[w], Cardinality(unaggregated_ids[w]))
            /\ mmAdded' = [i \in StateIds |->
                              IF i \in unaggregated_ids[w]
                              THEN mmAdded[i] + 1 ELSE mmAdded[i]]
            /\ aggPc' = [aggPc EXCEPT ![w] = "marketCommitted"]
            /\ UNCHANGED <<aggRaised, unaggregated_ids, vmRow, mmRow>>
    /\ UNCHANGED <<aggFrame, stateRows, nextStateId, venue_metrics, staged,
                   reinvoked, vmAdded>>

\* UPDATE availability_state SET aggregated_at = now WHERE id IN
\* unaggregated_ids, and its db.commit()
AggStamp(w) ==
    /\ aggPc[w] = "marketCommitted"
    /\ stateRows' = [i \in StateIds |->
                        IF i \in unaggregated_ids[w] /\ stateRows[i].exists
                        THEN [stateRows[i] EXCEPT !.aggregated_at = TRUE]
                        ELSE stateRows[i]]
    /\ aggPc' = [aggPc EXCEPT ![w] = "stamped"]
    /\ AggReturn(w)
    /\ UNCHANGED <<aggFrame, nextStateId, venue_metrics, market_metrics,
                   staged, reinvoked, vmAdded, mmAdded, aggRaised>>

\* run_poll_for_bucket after the aggregator returned: delete the staged
\* state rows by id, commit
AggDeleteStates(w) ==
    /\ aggPc[w] = "stamped"
    /\ stateRows' = [i \in StateIds |->
                        IF i \in staged[w]
                        THEN [stateRows[i] EXCEPT !.exists = FALSE]
                        ELSE stateRows[i]]
    /\ aggPc' = [aggPc EXCEPT ![w] = "returned"]
    /\ UNCHANGED <<aggFrame, nextStateId, venue_metrics, market_metrics,
                   staged, unaggregated_ids, vmRow, mmRow, reinvoked,
                   vmAdded, mmAdded, aggRaised>>

\* a statement or commit of the invocation raises (connection lost,
\* statement timeout); run_poll_for_bucket logs the exception and goes on
AggRaise(w) ==
    /\ aggPc[w] \in {"selected", "venueRead", "venueCommitted", "marketRead",
                     "marketCommitted", "stamped"}
    /\ aggPc' = [aggPc EXCEPT ![w] = "failed"]
    /\ aggRaised' = TRUE
    /\ AggReturn(w)
    /\ UNCHANGED <<aggFrame, stateRows, nextStateId, venue_metrics,
                   market_metrics, staged, reinvoked, vmAdded, mmAdded>>

\* -------------------------------------------------------------- retention
\* A bucket id f"{date_str}_{time_slot}" is the pair <<day, hour>>: ISO
\* dates and HH:MM times have a fixed width, so the string order of bucket
\* ids is the lexicographic order of the pairs.

\* a < b for bucket ids compared as strings
BucketIdLess(a, b) == a[1] < b[1] \/ (a[1] = b[1] /\ a[2] < b[2])

\* all_bucket_ids(today), for a DISCOVERY_TIME_SLOTS setting
WindowBucketIds(day, ts) ==
    {<<d, ts[i]>> : d \in day..(day + WindowDays - 1), i \in DOMAIN ts}

\* ensure_buckets: the window's buckets that have no row get one
ensure_buckets(rows, day, ts) == rows \cup WindowBucketIds(day, ts)

\* variant: buckets before the day before `today` are removed
prune_old_buckets_late(rows, day) == {b \in rows : ~(b[1] < day - 1)}

\* prune_old_buckets: DELETE WHERE date_str < today_str
prune_old_buckets(rows, day) == {b \in rows : ~(b[1] < day)}

\* the cutoff f"{today_str}_15:00"
Cutoff(day) == <<day, CutoffHour>>

\* prune_old_slot_availability: DELETE WHERE bucket_id < cutoff
prune_old_slot_availability(rows, day) ==
    {b \in rows : ~BucketIdLess(b, Cutoff(day))}

\* prune_old_availability_state: DELETE WHERE bucket_id < cutoff
prune_old_availability_state(rows, day) ==
    {b \in rows : ~BucketIdLess(b, Cutoff(day))}

\* prune_old_sessions: returns 0
prune_old_sessions(rows, day) == rows

\* prune_old_drop_events: DELETE WHERE bucket_id < cutoff, then DELETE WHERE
\* opened_at < now - DROP_EVENTS_RETENTION_DAYS AND push_sent_at IS NOT NULL
prune_old_drop_events(events, day, nowDay) ==
    LET kept == {e \in events : ~BucketIdLess(e.bid, Cutoff(day))}
    IN  {e \in kept : ~(e.opened_at < nowDay - R_drop /\ e.pushed)}

\* the steps of run_sliding_window_job that touch the store or may raise
\* (the prunes of the metrics tables are one step)
DailySteps ==
    <<"prune_old_buckets", "prune_old_drop_events",
      "prune_old_slot_availability", "prune_old_sessions",
      "prune_old_metrics", "ensure_buckets", "baseline_new_day">>

\* the steps of a tick of run_discovery_bucket_job before the dispatch; the
\* tick counter decides which throttled prunes it makes
TickSteps(everyOther, everyN) ==
    <<"ensure_buckets", "prune_old_buckets">>
        \o (IF everyOther THEN <<"prune_old_drop_events">> ELSE << >>)
        \o (IF everyN THEN <<"prune_old_slot_availability",
                             "prune_old_sessions">>
            ELSE << >>)

PruneSteps ==
    {"prune_old_buckets", "prune_old_drop_events",
     "prune_old_slot_availability", "prune_old_sessions", "prune_old_metrics"}

\* the statement in which an exception of the step is caught, if any: the
\* tick wraps prune_old_buckets, prune_old_drop_events, and the pair
\* prune_old_slot_availability / prune_old_sessions; the daily job wraps
\* nothing
CaughtAfter(kind, step, rest) ==
    IF kind = "tick" /\ step \in PruneSteps
    THEN IF step = "prune_old_slot_availability" THEN Tail(rest) ELSE rest
    ELSE << >>

\* the store after one step that completes (each prune commits on its own)
StepEffect(db, step, day, nowDay, ts) ==
    IF step = "prune_old_buckets"
    THEN [db EXCEPT !.buckets = prune_old_buckets(db.buckets, day)]
    ELSE IF step = "ensure_buckets"
    THEN [db EXCEPT !.buckets = ensure_buckets(db.buckets, day, ts)]
    ELSE IF step = "prune_old_drop_events"
    THEN [db EXCEPT !.events = prune_old_drop_events(db.events, day, nowDay)]
    ELSE IF step = "prune_old_slot_availability"
    THEN [db EXCEPT !.proj = prune_old_slot_availability(db.proj, day)]
    ELSE IF step = "prune_old_sessions"
    THEN [db EXCEPT !.states = prune_old_sessions(db.states, day)]
    ELSE db

\* a run over its steps: a step in `raising` raises before its commit, and
\* the run goes on after the handler that catches the exception, or ends if
\* none does; notRun collects the steps an exception kept from running
RECURSIVE RunSteps(_, _, _, _, _, _, _)
RunSteps(db, steps, kind, raising, day, nowDay, ts) ==
    IF steps = << >> THEN [db |-> db, failed |-> FALSE, notRun |-> {}]
    ELSE LET step == Head(steps)
             rest == Tail(steps)
         IN  IF step \in raising
             THEN LET next == CaughtAfter(kind, step, rest)
                      out == RunSteps(db, next, kind, raising, day, nowDay, ts)
                  IN  [out EXCEPT
                          !.failed = @ \/ step \in PruneSteps,
                          !.notRun = @ \cup
                              {rest[i] : i \in 1..(Len(rest) - Len(next))}]
             ELSE RunSteps(StepEffect(db, step, day, nowDay, ts), rest, kind,
                           raising, day, nowDay, ts)

\* the retention tables as one record
Store ==
    [buckets |-> discovery_buckets, proj |-> slot_availability,
     states |-> availability_state, events |-> drop_events]

\* a run of the given kind over the given steps, of which at most one
\* raises
RunJob(kind, steps) ==
    \E raising \in {{}} \cup {{steps[i]} : i \in DOMAIN steps} :
        \E out \in {RunSteps(Store, steps, kind, raising, today, today,
                            time_slots)} :
            /\ discovery_buckets' = out.db.buckets
            /\ slot_availability' = out.db.proj
            /\ availability_state' = out.db.states
            /\ drop_events' = out.db.events
            /\ jobKind' = kind
            /\ jobToday' = today
            /\ jobFailed' = out.failed
            /\ jobNotRun' = out.notRun
            /\ UNCHANGED <<now, oneBucketVars, poolVars, aggVars, fanVars, auxVars,
                   time_slots,
                           today>>

\* run_sliding_window_job
DailyJob == RunJob("daily", DailySteps)

\* the part of run_discovery_bucket_job before the dispatch
TickJob ==
    \E everyOther \in BOOLEAN, everyN \in BOOLEAN :
        RunJob("tick", TickSteps(everyOther, everyN))

\* the step is not the return of a job: jobKind .. jobNotRun describe the
\* job run that has just returned, if one has
NoJobReturned ==
    /\ jobKind' = "none"
    /\ jobToday' = 0
    /\ jobFailed' = FALSE
    /\ jobNotRun' = {}

\* a poll of a bucket of the window finds an opened slot: projection row,
\* state row and DropEvent of the bucket
RetPoll(b) ==
    /\ b \in WindowBucketIds(today, time_slots)
    /\ b \in discovery_buckets
    /\ slot_availability' = slot_availability \cup {b}
    /\ availability_state' = availability_state \cup {b}
    /\ drop_events' =
          IF \E e \in drop_events : e.bid = b THEN drop_events
          ELSE drop_events \cup
                  {[bid |-> b, opened_at |-> today, pushed |-> FALSE]}
    /\ NoJobReturned
    /\ UNCHANGED <<now, oneBucketVars, poolVars, aggVars, fanVars, auxVars,
                   time_slots, today,
                   discovery_buckets>>

\* a run of the push job stamps push_sent_at on the unsent DropEvents
RetPush ==
    /\ \E e \in drop_events : ~e.pushed
    /\ drop_events' = {[e EXCEPT !.pushed = TRUE] : e \in drop_events}
    /\ NoJobReturned
    /\ UNCHANGED <<now, oneBucketVars, poolVars, aggVars, fanVars, auxVars,
                   time_slots, today,
                   discovery_buckets, slot_availability, availability_state>>

\* window_start_date() moves to the next day
NextDay ==
    /\ today < MaxDay
    /\ today' = today + 1
    /\ NoJobReturned
    /\ UNCHANGED <<now, oneBucketVars, poolVars, aggVars, fanVars, auxVars,
                   time_slots,
                   discovery_buckets, slot_availability, availability_state,
                   drop_events>>

\* ------------------------------------------- bucket rows of the window
\* variant: every bucket of the window gets a fresh row
ensure_bucket_rows_fresh(rows, day, ts) ==
    [b \in DOMAIN rows |->
        IF b \in WindowBucketIds(day, ts) THEN NewDiscoveryBucket ELSE rows[b]]

\* ensure_buckets on the rows with their columns: existing_ids are the
\* window's ids that have a row, to_add gets a row of NULL columns
ensure_bucket_rows(rows, day, ts) ==
    LET existing_ids == {b \in WindowBucketIds(day, ts) : rows[b].exists}
        to_add == WindowBucketIds(day, ts) \ existing_ids
    IN  [b \in DOMAIN rows |->
            IF b \in to_add THEN NewDiscoveryBucket ELSE rows[b]]

\* a call of ensure_buckets(db, today)
EnsureBuckets ==
    /\ bucket_rows' = ensure_bucket_rows(bucket_rows, today, time_slots)
    /\ lastCall' = "ensure_buckets"
    /\ UNCHANGED <<now, oneBucketVars, poolVars, aggVars, retVars, fanVars,
                   venues, conflictMet, feed_cache>>

\* run_baseline_for_bucket of a bucket of the window that has a row:
\* baseline and prev are the fetched snapshot, scanned_at is set
EnsureBaseline(b) ==
    /\ b \in WindowBucketIds(today, time_slots)
    /\ bucket_rows[b].exists
    /\ \E fetched \in {{}, Slots} :
          bucket_rows' = [bucket_rows EXCEPT ![b] =
              [exists |-> TRUE, baseline |-> Json(fetched),
               prev |-> Json(fetched), scanned_at |-> <<today>>]]
    /\ lastCall' = "run_baseline_for_bucket"
    /\ UNCHANGED <<now, oneBucketVars, poolVars, aggVars, retVars, fanVars,
                   venues, conflictMet, feed_cache>>

\* prune_old_buckets on the rows with their columns
EnsurePrune ==
    /\ bucket_rows' = [b \in DOMAIN bucket_rows |->
          IF b[1] < today THEN NoDiscoveryBucket ELSE bucket_rows[b]]
    /\ lastCall' = "prune_old_buckets"
    /\ UNCHANGED <<now, oneBucketVars, poolVars, aggVars, retVars, fanVars,
                   venues, conflictMet, feed_cache>>

\* the day changes between two calls
EnsureDay ==
    /\ today < MaxDay
    /\ today' = today + 1
    /\ lastCall' = "none"
    /\ UNCHANGED <<now, oneBucketVars, poolVars, aggVars, fanVars, time_slots,
                   discovery_buckets, slot_availability, availability_state,
                   drop_events, jobKind, jobToday, jobFailed, jobNotRun,
                   venues, conflictMet, feed_cache, bucket_rows>>

\* ------------------------------------------------------------- venues
\* _upsert_venue at time t: last_seen_at of the venue's row is set, the row
\* is created when missing. No statement of the program calls it.
upsert_venue(vs, v, t) ==
    [vs EXCEPT ![v] = [exists |-> TRUE, last_seen_at |-> t]]

\* ---------------------------------------------------------- read shapes
\* the slots with a DropEvent of opened_at >= cutoff
RecentDropSlots(events, cutoff) ==
    {e.slot : e \in {x \in events : x.opened_at >= cutoff}}

\* get_just_opened_from_buckets at time t with opened_within_minutes =
\* minutes (0: not given): the open projection rows whose (bucket, slot) has
\* a DropEvent inside the window (the caps of the queries only take rows
\* away)
get_just_opened_from_buckets(events, pr, t, minutes) ==
    LET cutoff == IF minutes > 0 THEN t - minutes ELSE t - JustOpenedDefault
    IN  {s \in Slots :
            pr[s].state = "open" /\ s \in RecentDropSlots(events, cutoff)}

\* variant: the recent drops are not excluded
get_still_open_all(events, pr, t, minutes) ==
    {s \in Slots : pr[s].state = "open"}

\* get_still_open_from_buckets at time t with exclude_opened_within_minutes
\* = minutes (0: not given): the open projection rows, without those whose
\* (bucket, slot) has a DropEvent inside the window when one is given
get_still_open_from_buckets(events, pr, t, minutes) ==
    {s \in Slots :
        /\ pr[s].state = "open"
        /\ minutes > 0 => s \notin RecentDropSlots(events, t - minutes)}

\* refresh_feed_cache: both read shapes with the same recency window, read
\* at the same moment, stored in the feed_cache row
refresh_feed_cache ==
    \E m \in 1..MaxRecency :
        /\ feed_cache' =
              [cached |-> TRUE, minutes |-> m,
               just_opened |-> get_just_opened_from_buckets(dropEvents, proj, now, m),
               still_open |-> get_still_open_from_buckets(dropEvents, proj, now, m)]
        /\ UNCHANGED <<now, oneBucketVars, poolVars, aggVars, retVars,
                       fanVars, venues, conflictMet, bucket_rows, lastCall>>

\* ------------------------------------------------- the DropEvent insert
\* the bulk insert of DropEvent rows of a poll, as a statement on its own:
\* any slots, at any time of the clock (two inserts of the same time are
\* inserts of the same minute); the rows' dedupe_key may be in the table
InsertStatement ==
    \E sids \in SUBSET Slots, t \in 1..MaxInsertTime :
        /\ sids # {}
        /\ dropEvents' = InsertDropEvents(dropEvents, sids, t)
        /\ conflictMet' =
              (conflictMet
                 \/ \E s \in sids, x \in dropEvents :
                        DedupeKey(x) = <<s, t>>)
        /\ lastEmit' = [s \in Slots |->
              IF \E e \in dropEvents' \ dropEvents : e.slot = s
              THEN t ELSE lastEmit[s]]
        /\ UNCHANGED <<now, inWindow, bucket, proj, avState, lock, schedVars,
                       workerVars, horizon, offered, poolVars, aggVars,
                       retVars, fanVars, venues, feed_cache,
                       bucket_rows, lastCall>>

\* ------------------------------------------------ notification fan-out
\* the recipient's include and exclude rows of notify_preferences
Includes == {n \in PreferenceNames : notify_preferences[n] = "include"}
Excludes == {n \in PreferenceNames : notify_preferences[n] = "exclude"}

\* add_venue_watch: the name is stored normalized with preference include
\* (an exclude row of the name is turned into an include row)
add_venue_watch(name) ==
    /\ notify_preferences' =
          [notify_preferences EXCEPT ![normalize_venue(name)] = "include"]
    /\ pushRun' = NoRun
    /\ UNCHANGED <<now, oneBucketVars, poolVars, aggVars, retVars, auxVars,
                   drop_queue>>

\* add_venue_exclude: the name is stored normalized with preference exclude
add_venue_exclude(name) ==
    /\ notify_preferences' =
          [notify_preferences EXCEPT ![normalize_venue(name)] = "exclude"]
    /\ pushRun' = NoRun
    /\ UNCHANGED <<now, oneBucketVars, poolVars, aggVars, retVars, auxVars,
                   drop_queue>>

\* remove_venue_watch / remove_venue_exclude: the row is deleted
remove_preference(n) ==
    /\ notify_preferences[n] # "none"
    /\ notify_preferences' = [notify_preferences EXCEPT ![n] = "none"]
    /\ pushRun' = NoRun
    /\ UNCHANGED <<now, oneBucketVars, poolVars, aggVars, retVars, auxVars,
                   drop_queue>>

\* a poll commits a DropEvent for a venue (opened_at = now)
FanDrop(name) ==
    /\ Cardinality(drop_queue) < MaxFanEvents
    /\ drop_queue' = drop_queue \cup
          {[id |-> Cardinality(drop_queue) + 1, venue_name |-> name,
            opened_at |-> now, pushed |-> FALSE]}
    /\ pushRun' = NoRun
    /\ UNCHANGED <<now, oneBucketVars, poolVars, aggVars, retVars, auxVars,
                   notify_preferences>>

\* the rows of the push job's query: push_sent_at IS NULL AND opened_at >=
\* now - PUSH_WINDOW_MINUTES
UnsentInWindow ==
    {e \in drop_queue : ~e.pushed /\ e.opened_at >= now - W_push}

\* ORDER BY opened_at ASC LIMIT PushLimit over the rows: the possible
\* results (rows of equal opened_at come in any order)
OldestFirst(rows) ==
    {sel \in SUBSET rows :
        /\ Cardinality(sel) = IF Cardinality(rows) < PushLimit
                              THEN Cardinality(rows) ELSE PushLimit
        /\ \A e \in sel : \A x \in rows \ sel : e.opened_at <= x.opened_at}

\* the filter of the selected rows: the normalized name is in watched_names
\* or is_hotspot(venue_name)
Notify(e, watched_names) ==
    normalize_venue(e.venue_name) \in watched_names \/ is_hotspot(e.venue_name)

\* the rows of `rows` for which a transport succeeded: the e-mail digest
\* (send_new_drops_email returns True) covers them all, the APNs push
\* (send_push_for_new_drops returns a positive count) the rows of pushOk
Delivered(rows, email, emailOk, tokens, pushOk) ==
    {e \in rows : (email /\ emailOk) \/ (tokens /\ e \in pushOk)}

\* run_push_for_new_drops_job: watched_names = (hotlist + includes) -
\* excludes, or the hotlist alone when the preferences cannot be loaded; the
\* query; the filter; the transports (notify_email set, device tokens
\* registered, and what each send returns, are inputs); the stamp of the
\* filtered rows
FanPushJob ==
    /\ \E loadFails \in BOOLEAN :
          LET hot == {normalize_venue(n) : n \in NYC_HOTSPOT_NAMES}
              watched_names ==
                  IF loadFails THEN hot ELSE (hot \cup Includes) \ Excludes
          IN  IF watched_names = {}
              THEN /\ pushRun' = [NoRun EXCEPT !.ran = TRUE]
                   /\ UNCHANGED drop_queue
              ELSE \E unsent \in OldestFirst(UnsentInWindow) :
                   \E notified \in
                          {{e \in unsent : Notify(e, watched_names)}} :
                   \E sent \in
                          {[configured |-> email \/ tokens,
                            delivered |->
                               {e.id : e \in Delivered(notified, email,
                                                       emailOk, tokens,
                                                       pushOk)}] :
                              email \in BOOLEAN, emailOk \in BOOLEAN,
                              tokens \in BOOLEAN,
                              pushOk \in SUBSET notified} :
                      /\ pushRun' =
                            [ran |-> TRUE, watched |-> watched_names,
                             selected |-> {e.id : e \in unsent},
                             notified |-> {e.id : e \in notified},
                             configured |-> sent.configured,
                             delivered |-> sent.delivered]
                      /\ drop_queue' =
                            {IF e \in notified
                             THEN [e EXCEPT !.pushed = TRUE] ELSE e :
                                 e \in drop_queue}
    /\ UNCHANGED <<now, oneBucketVars, poolVars, aggVars, retVars, auxVars,
                   notify_preferences>>

\* time passes
FanTime ==
    /\ now < MaxFanTime
    /\ now' = now + 1
    /\ pushRun' = NoRun
    /\ UNCHANGED <<oneBucketVars, poolVars, aggVars, retVars, auxVars,
                   notify_preferences, drop_queue>>

\* ---------------------------------------------------------- specifications
\* run_poll_for_bucket (with the aggregation that follows its commit)
Poll(w) ==
    \/ Fetch(w)
    \/ LoadRow(w)
    \/ TryLock(w)
    \/ PollCommit(w)
    \/ PollFail(w)
    \/ Aggregate(w)

\* this process alone: scheduler, its worker, the jobs, the date
Next ==
    \/ Tick
    \/ WorkerStart
    \/ Poll(Local)
    \/ Reenqueue
    \/ PushJob
    \/ SlidingWindowJob
    \/ RefreshBaselines
    \/ AdvanceClock
    \/ DayRollover

Spec == Init /\ [][Next]_vars

\* one worker polling the bucket sequentially from the empty store: no
\* baseline run, no window move
SeqNext ==
    \/ Tick
    \/ WorkerStart
    \/ Poll(Local)
    \/ Reenqueue
    \/ PushJob
    \/ AdvanceClock

SeqSpec == SeqInit /\ [][SeqNext]_vars

\* one worker polling the bucket sequentially, and the feed refreshed at
\* any moment
ReadNext ==
    \/ Tick
    \/ WorkerStart
    \/ Poll(Local)
    \/ Reenqueue
    \/ PushJob
    \/ AdvanceClock
    \/ refresh_feed_cache

ReadInit == InitAt(MaxRaceTime, Slots)

ReadSpec == ReadInit /\ [][ReadNext]_vars

\* two processes polling the bucket concurrently
RaceNext ==
    \/ Tick
    \/ WorkerStart
    \/ Poll(Local)
    \/ Reenqueue
    \/ PeerStart
    \/ Poll(Peer)
    \/ PeerReturn
    \/ PushJob
    \/ AdvanceClock

RaceSpec == RaceInit /\ [][RaceNext]_vars

\* the sequential polls with their scheduling: the scheduler ticks, a
\* dispatched worker starts, a started poll runs to its return, the worker
\* re-enqueues, time passes
CloseFairness ==
    /\ WF_vars(Tick)
    /\ WF_vars(WorkerStart)
    /\ WF_vars(Poll(Local))
    /\ WF_vars(Reenqueue)
    /\ WF_vars(AdvanceClock)

CloseSpec == SeqInit /\ [][SeqNext]_vars /\ CloseFairness

\* two instances polling the bucket, the clock of the second one behind
SkewNext ==
    \/ Tick
    \/ WorkerStart
    \/ Poll(Local)
    \/ PeerStart
    \/ Poll(Peer)
    \/ PeerCommitBehind
    \/ PeerReturn

SkewInit == InitAt(MaxShortTime, RaceSlots)

SkewSpec == SkewInit /\ [][SkewNext]_vars

\* the scheduler of one process over the buckets of the window: ticks of the
\* scheduler thread and of the startup thread, and the executor's workers
PoolNext ==
    \/ \E th \in TickThreads : TickPrepare(th)
    \/ \E th \in TickThreads : TickDispatch(th)
    \/ \E th \in TickThreads : TickSubmit(th)
    \/ \E b \in Buckets : WorkerBegin(b)
    \/ \E b \in Buckets : WorkerEnd(b)
    \/ AdvanceClock

PoolSpec == PoolInit /\ [][PoolNext]_vars

\* the scheduler in steady state: ticks keep firing, every submitted task
\* is started and every started poll completes, time keeps passing
SteadyNext ==
    \/ \E th \in TickThreads : TickPrepare(th)
    \/ \E th \in TickThreads : TickDispatch(th)
    \/ \E th \in TickThreads : TickSubmit(th)
    \/ \E b \in Buckets : WorkerBegin(b)
    \/ \E b \in Buckets : WorkerEnd(b)
    \/ TimePasses

SteadyInit == InitAt(0, Slots)

SteadyFairness ==
    /\ \A th \in TickThreads : WF_vars(TickPrepare(th))
    /\ \A th \in TickThreads : WF_vars(TickDispatch(th))
    /\ \A th \in TickThreads : WF_vars(TickSubmit(th))
    /\ \A b \in Buckets : SF_vars(WorkerBegin(b))
    /\ \A b \in Buckets : WF_vars(WorkerEnd(b))
    /\ SF_vars(TimePasses)

SteadySpec == SteadyInit /\ [][SteadyNext]_vars /\ SteadyFairness

\* two workers aggregating closed rows of the same (venue, window_date)
AggNext ==
    \/ \E w \in Workers : AggStage(w)
    \/ \E w \in Workers : AggInvoke(w)
    \/ \E w \in Workers : AggReadVenue(w)
    \/ \E w \in Workers : AggCommitVenue(w)
    \/ \E w \in Workers : AggReadMarket(w)
    \/ \E w \in Workers : AggCommitMarket(w)
    \/ \E w \in Workers : AggStamp(w)
    \/ \E w \in Workers : AggDeleteStates(w)
    \/ \E w \in Workers : AggRaise(w)

AggInit == InitAt(0, Slots)

AggSpec == AggInit /\ [][AggNext]_vars

\* retention: the daily job and the ticks' prunes over the buckets of several
\* days, with polls, pushes and the window moving
RetNext ==
    \/ DailyJob
    \/ TickJob
    \/ \E b \in WindowBucketIds(today, time_slots) : RetPoll(b)
    \/ RetPush
    \/ NextDay

RetInit == \E ts \in TimeSlotSettings : InitWith(0, Slots, ts)

RetSpec == RetInit /\ [][RetNext]_vars

\* the bucket rows of the window: ensure_buckets, baseline runs, the prune
\* of past buckets, the day advancing
EnsureNext ==
    \/ EnsureBuckets
    \/ \E b \in WindowBucketIds(today, time_slots) : EnsureBaseline(b)
    \/ EnsurePrune
    \/ EnsureDay

EnsureSpec == RetInit /\ [][EnsureNext]_vars

\* the notification fan-out: drops of several venues, the recipient's
\* preference routes, runs of the push job, time passing
FanNext ==
    \/ \E name \in PostedNames : add_venue_watch(name)
    \/ \E name \in PostedNames : add_venue_exclude(name)
    \/ \E n \in PreferenceNames : remove_preference(n)
    \/ \E name \in VenueNames : FanDrop(name)
    \/ FanPushJob
    \/ FanTime

FanInit == InitAt(0, Slots)

FanSpec == FanInit /\ [][FanNext]_vars

\* the DropEvent insert on its own, with the push job stamping rows
InsertNext ==
    \/ InsertStatement
    \/ PushJob

InsertInit == InitAt(0, Slots)

InsertSpec == InsertInit /\ [][InsertNext]_vars

\* ------------------------------------------------------------- properties
\* worker w ends its locked transaction with a commit in this step
Commits(w) == pc[w] = "locked" /\ pc'[w] \in {"done", "committed"}

\* the DropEvent rows inserted in this step
Emitted ==
    {e \in dropEvents' : \A x \in dropEvents : DedupeKey(x) # DedupeKey(e)}

\* C1: every DropEvent is emitted by a committing poll whose bucket row, as
\* the poll read it, had a non-null baseline and a prev_slot_ids without the
\* event's slot; in every interleaving of two processes polling the bucket
C1_DropOnlyForSlotOutsidePrev ==
    [][\A e \in Emitted :
          \E w \in Workers :
              /\ Commits(w)
              /\ rowSnap[w].exists
              /\ rowSnap[w].baseline # Null
              /\ e.slot \notin ParseSlotIds(rowSnap[w].prev)]_vars

\* C1 witness: a poll has emitted a DropEvent while the other process is
\* inside a poll of the bucket
C1_Witness ==
    /\ \E s \in Slots : lastEmit[s] # 0
    /\ \E w \in Workers : pc[w] \in {"fetched", "loaded"}

\* C2: a poll that read a missing bucket row, or one with a NULL baseline,
\* commits baseline = prev = curr_set, an open projection row for every slot
\* of curr_set, no change of availability_state and no DropEvent
C2_Bootstrap ==
    [][\A w \in Workers :
          Commits(w) /\ (~rowSnap[w].exists \/ rowSnap[w].baseline = Null)
          => /\ bucket'.exists
             /\ bucket'.baseline = Json(curr[w])
             /\ bucket'.prev = Json(curr[w])
             /\ \A s \in curr[w] : proj'[s].state = "open"
             /\ {s \in Slots : proj'[s].state = "open"
                                 /\ proj[s].state # "open"} \subseteq curr[w]
             /\ avState' = avState
             /\ dropEvents' = dropEvents]_vars

\* C2 witness: the first commit was a bootstrap that observed both slots
C2_Witness ==
    /\ now = 1
    /\ pc[Local] = "done"
    /\ bucket.exists
    /\ bucket.baseline = Json(Slots)
    /\ bucket.prev = Json(Slots)
    /\ \A s \in Slots : proj[s].state = "open" /\ proj[s].opened_at = 1
    /\ \A s \in Slots : avState[s] = NoStateRow
    /\ dropEvents = {}

\* C3: a committing poll emits no DropEvent for a slot whose venue has a slot
\* in the prev_slot_ids the poll read (also when run_baseline_for_bucket
\* wrote that prev), and every added slot has an open projection row
C3_VenueZero ==
    [][\A w \in Workers :
          Commits(w) /\ rowSnap[w].exists /\ rowSnap[w].baseline # Null
          => /\ \A e \in Emitted :
                    \A x \in ParseSlotIds(rowSnap[w].prev) :
                        Venue(x) # Venue(e.slot)
             /\ \A s \in curr[w] \ ParseSlotIds(rowSnap[w].prev) :
                    proj'[s].state = "open"]_vars

\* C4: two DropEvents of one slot are never emitted less than T_dedupe apart
C4_TtlDedupe ==
    [][\A s \in Slots :
          lastEmit[s] # 0 /\ lastEmit'[s] # lastEmit[s]
          => lastEmit'[s] - lastEmit[s] >= T_dedupe]_vars

\* the slots of curr_set whose DropEvent the round-trip formula expects at
\* time t after the observation prev_set
RoundTripDrops(curr_set, prev_set, t) ==
    {s \in curr_set \ prev_set :
        /\ \A x \in prev_set : Venue(x) # Venue(s)
        /\ ~(lastEmit[s] # 0 /\ lastEmit[s] >= t - T_dedupe)}

\* C5: polled sequentially from the empty store, every committed poll leaves
\* prev = curr_set, the first one emits nothing, and each later one emits
\* exactly (Ci - Ci-1) minus the slots whose venue is in Ci-1 minus the slots
\* with a DropEvent emitted at most T_dedupe before
C5_RoundTrip ==
    [][\A w \in Workers :
          Commits(w)
          => /\ bucket'.prev = Json(curr[w])
             /\ {e.slot : e \in Emitted} =
                  IF bucket.baseline = Null THEN {}
                  ELSE RoundTripDrops(curr[w], ParseSlotIds(bucket.prev),
                                      now')]_vars

\* C6: every open projection row of the bucket has its slot in
\* prev_slot_ids
C6_OpenRowsInPrev ==
    bucket.exists
    => \A s \in Slots :
          proj[s].state = "open" => s \in ParseSlotIds(bucket.prev)

\* C7: no closed projection row of the bucket has its slot in prev_slot_ids
C7_ClosedRowsNotInPrev ==
    bucket.exists
    => \A s \in Slots :
          proj[s].state = "closed" => s \notin ParseSlotIds(bucket.prev)

\* C8: a poll whose fetch met a provider error does not load the bucket row
\* and changes no bucket, projection or availability_state row
C8_ProviderErrorAborts ==
    [][\A w \in Workers :
          fetchErr[w] /\ pc'[w] # pc[w]
          => /\ pc'[w] # "loaded"
             /\ UNCHANGED <<bucket, proj, avState>>]_vars

\* C9: of two workers at the advisory lock at most one holds it; the lock
\* is granted exactly when no other worker holds it; the refused worker
\* returns at once with the database and the lock untouched, and the
\* scheduler's worker is then taken out of _in_flight with
\* _bucket_next_run = now + cooldown
C9_LockContention ==
    [][/\ Cardinality({w \in Workers : pc'[w] = "locked"}) <= 1
       /\ \A w \in Workers :
            /\ pc[w] = "loaded" /\ pc'[w] # pc[w]
               => IF lock \in {0, w}
                  THEN pc'[w] = "locked" /\ lock' = w
                  ELSE pc'[w] = "skipped" /\ lock' = lock
                       /\ UNCHANGED dbVars
            /\ pc[w] = "skipped" /\ pc'[w] # pc[w] => UNCHANGED dbVars
       /\ pc[Local] = "skipped" /\ pc'[Local] # "skipped"
          => /\ pc'[Local] = "idle"
             /\ ~inFlight'
             /\ nextRun' = startNow + T_cooldown]_vars

\* C9 witness: the scheduler's worker was refused the lock that the other
\* process holds
C9_Witness == pc[Local] = "skipped" /\ pc[Peer] = "locked" /\ lock = Peer

\* C10: a poll that holds the lock after its first observation diffs against
\* the prev_slot_ids that is committed at that moment
C10_RowLoadedUnderLock ==
    \A w \in Workers :
        pc[w] = "locked" /\ rowSnap[w].exists /\ rowSnap[w].baseline # Null
        => rowSnap[w].prev = bucket.prev

\* C11: every write of an existing bucket row's baseline_slot_ids /
\* prev_slot_ids is the commit of a worker that holds the bucket's advisory
\* lock
C11_SingleWriter ==
    [][bucket'.exists /\ bucket.exists
       /\ (bucket'.baseline # bucket.baseline \/ bucket'.prev # bucket.prev)
       => \E w \in Workers : lock = w /\ Commits(w)]_vars

\* C12: a poll whose snapshot was fetched before the snapshot of a poll that
\* has committed since changes no projection row's state and not
\* prev_slot_ids when it commits
C12_FresherSnapshotWins ==
    [][\A w \in Workers :
          Commits(w) /\ snapAge[w] = "superseded"
          => /\ bucket'.prev = bucket.prev
             /\ \A s \in Slots : proj'[s].state = proj[s].state]_vars

\* C13: a poll that fails between taking the lock and the success of its
\* commit leaves the bucket row, the projection, the DropEvents and the
\* availability_state rows as they were and releases the lock
C13_PollAtomicity ==
    [][\A w \in Workers :
          pc[w] = "locked" /\ pc'[w] = "failed"
          => /\ UNCHANGED <<bucket, proj, dropEvents, avState>>
             /\ lock = w
             /\ lock' = 0]_vars

\* C13 witness: a poll failed on a bucket that has an open projection row
\* and would have been written to (the observation differs from prev)
C13_Witness ==
    /\ pc[Local] = "failed"
    /\ bucket.exists
    /\ bucket.baseline # Null
    /\ \E s \in Slots : proj[s].state = "open"
    /\ lock = 0

\* the slots whose projection row is open although the poll of w did not
\* observe them
OpenButGone(w) == {s \in Slots : proj[s].state = "open" /\ s \notin curr[w]}

C15_NoReopenInPlace ==
    [][\A s \in Slots :
          avState[s].st = "closed" /\ avState'[s].st = "open"
          => avState'[s].id # avState[s].id]_vars

\* C20: when the scheduler's worker completes at time t (the poll
\* committed, failed or was refused the lock), _bucket_next_run is set to
\* t + T_cooldown
C20_CooldownFromCompletion ==
    [][pc[Local] \in {"skipped", "failed", "done"} /\ pc'[Local] = "idle"
       => nextRun' = now + T_cooldown]_vars

\* C18: the number of buckets in _in_flight never exceeds
\* DISCOVERY_MAX_CONCURRENT_BUCKETS
C18_BoundedInFlight == Cardinality(in_flight) <= MaxConcurrent

\* C19: a tick puts into to_run (and then submits) only buckets that are
\* not in _in_flight, have no task queued or running, and are not in the
\* to_run of another tick
C19_NoDoubleDispatch ==
    [][\A th \in TickThreads :
          to_run'[th] # to_run[th]
          => \A b \in to_run'[th] :
                /\ b \notin in_flight
                /\ task[b] = "none"
                /\ \A other \in TickThreads \ {th} : b \notin to_run[other]]_vars

\* C19 witness: a tick dispatched a bucket and passed over one whose
\* cooldown had elapsed but whose worker is still running, while the other
\* thread is inside a tick
C19_Witness ==
    \E th \in TickThreads :
        /\ to_run[th] # {}
        /\ \E b \in in_flight \ to_run[th] :
              /\ task[b] = "running"
              /\ bucket_next_run[b] <= tickNow[th]
        /\ \E other \in TickThreads \ {th} : tickPc[other] = "prepared"

\* number of state rows of the (venue, date) stamped aggregated_at, the
\* rows deleted afterwards included
StampedRows == Cardinality({i \in StateIds : stateRows[i].aggregated_at})

\* C16: when no aggregation is under way and none has raised,
\* venue_metrics(V, D).closed_count equals the number of state rows of
\* (V, D) that were stamped aggregated_at, whatever the interleaving of the
\* workers
C16_AggregationCount ==
    (/\ \A w \in Workers : aggPc[w] \in {"idle", "staged", "returned"}
     /\ ~aggRaised)
        => venue_metrics.closed = StampedRows

\* C17: re-invoking the aggregator on the same staged rows adds nothing
\* more: no state row is added to venue_metrics, or to market_metrics, more
\* than once
C17_AggregationIdempotent ==
    \A i \in StateIds : vmAdded[i] <= 1 /\ mmAdded[i] <= 1

\* C21: a tick dispatches every bucket whose cooldown has elapsed and that
\* is not in flight whenever fewer than DISCOVERY_MAX_CONCURRENT_BUCKETS
\* buckets are in flight, however many other buckets are ready
C21_ReadyIsDispatched ==
    [][\A th \in TickThreads :
          tickPc[th] = "prepared" /\ tickPc'[th] # "prepared"
          => \A b \in Buckets :
                (/\ bucket_next_run[b] <= tickNow[th]
                 /\ b \notin in_flight
                 /\ Cardinality(in_flight) < MaxConcurrent)
                    => b \in in_flight']_vars

\* C22: in steady state every bucket of the window is polled again and
\* again
C22_NoStarvation == \A b \in Buckets : []<>(task[b] = "running")

\* C23: whatever the outcome of the poll (completed, skipped on lock
\* contention, raised), the worker's end takes the bucket out of _in_flight
\* and sets _bucket_next_run to the worker's `now` plus the cooldown; a
\* bucket whose worker has ended is not in _in_flight
C23_ReenqueueAnyOutcome ==
    /\ [](pc[Local] = "idle" => ~inFlight)
    /\ [][pc[Local] \in {"skipped", "failed", "done"} /\ pc'[Local] # pc[Local]
            => /\ pc'[Local] = "idle"
               /\ ~inFlight'
               /\ nextRun' = startNow + T_cooldown]_vars

\* C23 witness: the bucket is re-enqueued after a worker that did not
\* complete its poll (no poll has committed yet), the other process holding
\* the lock
C23_Witness ==
    /\ pc[Local] = "idle"
    /\ ~inFlight
    /\ nextRun >= T_cooldown
    /\ bucket.baseline = Null
    /\ lock = Peer

\* C24: after a tick's reconciliation, a bucket outside the window has no
\* _bucket_next_run entry and is not in _in_flight, and a bucket of the
\* window has a _bucket_next_run entry
C24_SchedulerFollowsWindow ==
    [][Tick => /\ ~inWindow => nextRun' = NoEntry /\ ~inFlight'
               /\ inWindow => nextRun' # NoEntry]_vars

C26_RetentionOfAvailabilityState ==
    jobKind = "daily" /\ ~jobFailed /\ jobNotRun = {}
    => \A b \in availability_state : ~(b[1] < jobToday)

\* the start of the window as a bucket id: window_start + "_" + the first
\* anchor of DISCOVERY_TIME_SLOTS
WindowStartId == <<today, time_slots[1]>>

\* C27: under every DISCOVERY_TIME_SLOTS setting, a retention run (daily job
\* or tick) deletes a projection row only if its bucket_id is before the
\* start of the window, and a DropEvent only if its bucket_id is before the
\* start of the window or it is already pushed and older than
\* DROP_EVENTS_RETENTION_DAYS; so no projection row and no unsent DropEvent
\* of a bucket of the window is deleted
C27_RetentionOnlyOutOfWindow ==
    [][jobKind' # "none"
       => /\ \A b \in slot_availability \ slot_availability' :
                BucketIdLess(b, WindowStartId)
          /\ \A e \in drop_events \ drop_events' :
                \/ BucketIdLess(e.bid, WindowStartId)
                \/ e.pushed /\ e.opened_at < today - R_drop
          /\ \A b \in WindowBucketIds(today, time_slots) :
                /\ b \in slot_availability => b \in slot_availability'
                /\ \A e \in drop_events :
                      e.bid = b /\ ~e.pushed => e \in drop_events']_vars

\* C28: when a prune step of a retention run (daily job or tick) has
\* raised, no later step of the run is kept from running
C28_RetentionFailureIsolation ==
    jobKind # "none" /\ jobFailed => jobNotRun = {}

\* C29: a run of the push job notifies for a DropEvent only if its
\* normalized venue name is not excluded by the recipient and is included by
\* the recipient or on the hotlist (by is_hotspot's match); no venue stored
\* with preference = exclude is notified, hotlist venues included
C29_EffectiveNotifySet ==
    [][pushRun'.ran
       => \A e \in drop_queue :
             e.id \in pushRun'.notified
             => /\ normalize_venue(e.venue_name) \notin Excludes
                /\ \/ normalize_venue(e.venue_name) \in Includes
                   \/ is_hotspot(e.venue_name)]_vars

\* C30: a run of the push job (with a notify list that is not empty)
\* processes every unsent DropEvent inside the push window that matches the
\* notify set and has fewer than the cap of other matching unsent in-window
\* events that are not newer than it
C30_FanOutSelection ==
    [][pushRun'.ran /\ pushRun'.watched # {}
       => \A e \in UnsentInWindow :
             (/\ Notify(e, pushRun'.watched)
              /\ Cardinality({x \in UnsentInWindow :
                                 /\ Notify(x, pushRun'.watched)
                                 /\ x # e
                                 /\ x.opened_at <= e.opened_at}) < PushLimit)
             => e.id \in pushRun'.notified]_vars

\* C31: a run of the push job stamps push_sent_at on a processed DropEvent
\* exactly when a transport (e-mail or push) succeeded for it or no
\* transport is configured; a row for which every configured transport
\* failed stays unsent
C31_FanOutStamping ==
    [][pushRun'.ran
       => \A e \in drop_queue :
             e.id \in pushRun'.notified
             => (([e EXCEPT !.pushed = TRUE] \in drop_queue' /\ ~e.pushed)
                 <=> (e.id \in pushRun'.delivered
                        \/ ~pushRun'.configured))]_vars

\* C32: no two DropEvent rows share a dedupe_key, and an insert of a row
\* whose dedupe_key is in the table is dropped: the insert removes and
\* replaces no row (a repeated insert of the same minute adds no second row)
C32_DedupeKeyUnique ==
    /\ [](\A e1 \in dropEvents, e2 \in dropEvents :
             DedupeKey(e1) = DedupeKey(e2) => e1 = e2)
    /\ [][\A x \in dropEvents :
             x \in dropEvents' \/ [x EXCEPT !.pushed = TRUE] \in dropEvents']_vars

\* C32 witness: an insert met a row of its dedupe_key that was already
\* stamped, and the stamped row is there
C32_Witness ==
    /\ conflictMet
    /\ \E e \in dropEvents : e.pushed
    /\ Cardinality(dropEvents) >= 2

\* C33: when the feed is refreshed with one recency window, no slot is in
\* both just-opened and still-open, no slot without an open projection
\* row is in either, a slot is in
\* just-opened only if it has a DropEvent inside the window and in
\* still-open only if it has none, and a slot for which no DropEvent was
\* ever inserted (seen at bootstrap only) is not in just-opened
C33_ReadShapesPartition ==
    [][feed_cache' # feed_cache =>
        LET just == feed_cache'.just_opened
            still == feed_cache'.still_open
            m == feed_cache'.minutes
        IN  /\ just \cap still = {}
            /\ \A s \in just \cup still : proj[s].state = "open"
            /\ \A s \in just :
                  \E e \in dropEvents : e.slot = s /\ e.opened_at >= now - m
            /\ \A s \in still :
                  \A e \in dropEvents : e.slot = s => e.opened_at < now - m
            /\ \A s \in just : lastEmit[s] # 0]_vars

\* C33 witness: a refresh found one slot just-opened and the other
\* still-open
C33_Witness ==
    /\ feed_cache.cached
    /\ feed_cache.just_opened # {}
    /\ feed_cache.still_open # {}

\* C34: every venue with a committed DropEvent has a venues row whose
\* last_seen_at is not older than the poll that emitted the DropEvent
C34_VenueUpsertOnDrop ==
    \A e \in dropEvents :
        /\ venues[Venue(e.slot)].exists
        /\ venues[Venue(e.slot)].last_seen_at >= e.opened_at

\* C35: when ensure_buckets returns, every (day, anchor) of the window
\* starting at today has a row, every row that existed before the call is
\* unchanged (baseline, prev and scanned_at kept), no row outside the window
\* is touched, and a call that follows a call changes nothing
C35_EnsureBucketsIdempotent ==
    [][lastCall' = "ensure_buckets" =>
        /\ \A b \in WindowBucketIds(today, time_slots) : bucket_rows'[b].exists
        /\ \A b \in AllBucketIds :
              bucket_rows[b].exists => bucket_rows'[b] = bucket_rows[b]
        /\ \A b \in AllBucketIds \ WindowBucketIds(today, time_slots) :
              bucket_rows'[b] = bucket_rows[b]
        /\ lastCall = "ensure_buckets" => bucket_rows' = bucket_rows]_vars

\* C35 witness: ensure_buckets has returned on a later day with a scanned
\* row of the window kept and the row of the new day created
C35_Witness ==
    /\ lastCall = "ensure_buckets"
    /\ today > 0
    /\ \E b \in WindowBucketIds(today, time_slots) :
          bucket_rows[b].scanned_at # Null /\ bucket_rows[b].baseline # Null
    /\ \E b \in WindowBucketIds(today, time_slots) :
          bucket_rows[b] = NewDiscoveryBucket

\* C36: a write that changes an existing projection row (and leaves it in
\* the table) carries an updated_at strictly greater than the one stored
C36_LastWriterWins ==
    [][\A s \in Slots :
          (proj[s].state # "none" /\ proj'[s].state # "none"
             /\ proj'[s] # proj[s])
          => proj'[s].updated_at > proj[s].updated_at]_vars

C38_NoDropLostToBaseline ==
    [][(/\ bucket.exists /\ bucket.baseline # Null /\ bucket'.exists
        /\ \E x \in Slots : proj[x].state # "none")
        => \A s \in ParseSlotIds(bucket'.prev) \ ParseSlotIds(bucket.prev) :
              /\ proj'[s].state = "open"
              /\ ((\A x \in ParseSlotIds(bucket.prev) : Venue(x) # Venue(s))
                    /\ s \notin RecentlyNotified(dropEvents, now'))
                 => \E e \in dropEvents' : e.slot = s /\ e.opened_at = now']_vars

\* C39: a poll that commits leaves the projection row of every slot that
\* is in the bucket's prev_slot_ids and in the poll's curr_set and has an
\* open projection row as it was, and its open AvailabilityState row as it
\* was (opened_at included)
C39_ContinuingSlotsFrame ==
    [][(pc[Local] = "locked" /\ pc'[Local] \in {"done", "committed"})
        => \A s \in ParseSlotIds(bucket.prev) \cap curr[Local] :
              proj[s].state = "open"
              => /\ proj'[s] = proj[s]
                 /\ avState[s].st = "open" => avState'[s] = avState[s]]_vars

====
